---- MODULE Spec2Model ----
(***************************************************************************)
(* A model of nipy/neurospin/viz/ortho_slicer.py: the OrthoSlicer class.   *)
(*                                                                         *)
(* One OrthoSlicer instance is modelled.  Its fields are the variables     *)
(* _cut_coords, rect and _object_bounds; axlim is the display limits of    *)
(* the three matplotlib axes (set by ax.axis(...)), and last is the record *)
(* of the most recent call: its name, its arguments, how it ended and the  *)
(* artists (lines, texts, images) it added to each of the three axes;      *)
(* plotted tells whether some plot_map call has returned normally.         *)
(*                                                                         *)
(* Numbers are rationals <<n, d>> in lowest terms with d > 0.  A Python    *)
(* float is a rational with at most Precision significant bits; every      *)
(* float operation of the code is the exact operation followed by Fl, the  *)
(* rounding to nearest (ties to even) of binary floating point.            *)
(***************************************************************************)
EXTENDS Integers, Sequences, FiniteSets, TLC

(* Significant bits of a float's mantissa in the model. *)
Precision == 8

(* At most this many content-bounds entries are registered per view. *)
MaxPlots == 2

Views == {"x", "y", "z"}

None == <<>>

-----------------------------------------------------------------------------
(* Exact rational arithmetic.  The operations are functions, so that an  *)
(* argument is a value by the time the operation reads it.                *)

Rat == Int \X Int

Abs(i) == IF i < 0 THEN -i ELSE i

GCD[a \in Nat, b \in Nat] == IF b = 0 THEN a ELSE GCD[b, a % b]

Pow2[k \in 0..30] == IF k = 0 THEN 1 ELSE 2 * Pow2[k - 1]

Reduce[n \in Int, d \in Int, g \in Nat] ==
    IF d < 0 THEN <<(-n) \div g, (-d) \div g>> ELSE <<n \div g, d \div g>>

Norm[n \in Int, d \in Int] == Reduce[n, d, GCD[Abs(n), Abs(d)]]

R(i) == <<i, 1>>
Q(n, d) == Norm[n, d]

RAdd[a \in Rat, b \in Rat] == Norm[a[1] * b[2] + b[1] * a[2], a[2] * b[2]]
RSub[a \in Rat, b \in Rat] == Norm[a[1] * b[2] - b[1] * a[2], a[2] * b[2]]
RMul[a \in Rat, b \in Rat] == Norm[a[1] * b[1], a[2] * b[2]]
RDiv[a \in Rat, b \in Rat] == Norm[a[1] * b[2], a[2] * b[1]]
RNeg[a \in Rat] == <<-a[1], a[2]>>
RAbs[a \in Rat] == <<Abs(a[1]), a[2]>>
RLe[a \in Rat, b \in Rat] == a[1] * b[2] <= b[1] * a[2]
RLt[a \in Rat, b \in Rat] == a[1] * b[2] < b[1] * a[2]
RMin[a \in Rat, b \in Rat] == IF RLe[a, b] THEN a ELSE b
RMax[a \in Rat, b \in Rat] == IF RLe[a, b] THEN b ELSE a

-----------------------------------------------------------------------------
(* Binary floating point: rounding of an exact result to Precision bits.   *)

MantHi == Pow2[Precision]
MantLo == Pow2[Precision - 1]

(* The exponent e with 2^(Precision-1) <= n/d / 2^e < 2^Precision, n/d > 0 *)
Expo[n \in Nat, d \in Nat] ==
    IF n >= MantHi * d THEN Expo[n, 2 * d] + 1
    ELSE IF n < MantLo * d THEN Expo[2 * n, d] - 1
    ELSE 0

(* m + r/d rounded to an integer: to nearest, ties to even. *)
Nearest[m \in Nat, r \in Nat, d \in Nat] ==
    IF (2 * r > d) \/ (2 * r = d /\ m % 2 = 1) THEN m + 1 ELSE m

(* n/d, with n/d / 2^e in the range of a mantissa, rounded to m * 2^e. *)
FlScaled[n \in Nat, d \in Nat, e \in Int] ==
    IF e >= 0
    THEN Norm[Nearest[n \div (d * Pow2[e]), n % (d * Pow2[e]), d * Pow2[e]]
                 * Pow2[e], 1]
    ELSE Norm[Nearest[(n * Pow2[-e]) \div d, (n * Pow2[-e]) % d, d],
              Pow2[-e]]

FlPos[n \in Nat, d \in Nat] == FlScaled[n, d, Expo[n, d]]

(* Round to nearest, ties to even. *)
Fl[a \in Rat] ==
    IF a[1] = 0 THEN a
    ELSE IF a[2] = 1 /\ Abs(a[1]) < MantHi THEN a
    ELSE IF a[1] > 0 THEN FlPos[a[1], a[2]]
    ELSE RNeg[FlPos[-a[1], a[2]]]

FAdd[a \in Rat, b \in Rat] == Fl[RAdd[a, b]]
FSub[a \in Rat, b \in Rat] == Fl[RSub[a, b]]
FMul[a \in Rat, b \in Rat] == Fl[RMul[a, b]]
FDiv[a \in Rat, b \in Rat] == Fl[RDiv[a, b]]

(* Python 2 round(c): to the nearest integer, halves away from zero;      *)
(* int(...) of the result.                                                *)
IntRound[a \in Rat] ==
    IF a[1] < 0
    THEN -((2 * Abs(a[1]) + a[2]) \div (2 * a[2]))
    ELSE (2 * a[1] + a[2]) \div (2 * a[2])

(* '%i' % c: the integer part, truncated toward zero. *)
FormatInt[a \in Rat] ==
    IF a[1] < 0 THEN -(Abs(a[1]) \div a[2]) ELSE a[1] \div a[2]

-----------------------------------------------------------------------------
(* The inputs: cut positions, frame rectangles, volumes and affines.       *)

T3(a, b, c) == <<a, b, c>>

(* cut_coords given to the constructor (world space). *)
CutCoordsSet ==
    { T3(R(1), R(0), R(2)),
      T3(R(3), R(1), R(-1)),
      T3(Q(1, 2), Q(5, 2), Q(3, 2)) }

(* cut_coords given to draw_cross to override the stored ones. *)
CrossCoordsSet == { T3(R(2), Q(1, 2), R(-1)) }

(* The position (bb.x0, bb.y0, bb.x1, bb.y1) of the frame axes, in figure  *)
(* coordinates: the default pl.axes((0., 0., 1., 1.)) or axes given by the *)
(* caller.                                                                 *)
RectSet ==
    { <<R(0), R(0), R(1), R(1)>>,
      <<Q(1, 8), Q(1, 4), Q(7, 8), Q(3, 4)>> }

NoMask == [masked |-> FALSE, lo |-> T3(0, 0, 0), hi |-> T3(0, 0, 0)]
Mask(lo, hi) == [masked |-> TRUE, lo |-> lo, hi |-> hi]

(* A 3D map: its shape, the range of its values and, for a masked array,   *)
(* the index box lo..hi of its unmasked voxels.                            *)
MapA(mask) == [shape |-> T3(4, 2, 3), vmin |-> 0, vmax |-> 9, mask |-> mask]
MapB(mask) == [shape |-> T3(2, 3, 2), vmin |-> -1, vmax |-> 5, mask |-> mask]

(* An affine with a diagonal linear part: world = scale * voxel + offset.  *)
Identity == [scale |-> T3(R(1), R(1), R(1)), offset |-> T3(R(0), R(0), R(0))]
Flipped == [scale |-> T3(R(2), R(2), R(-1)), offset |-> T3(R(-1), R(1), R(2))]

(* The (map, affine) pairs plot_map is called with. *)
PlotInputs ==
    { [map |-> MapA(NoMask), affine |-> Identity],
      [map |-> MapA(Mask(T3(1, 0, 0), T3(2, 0, 1))), affine |-> Flipped],
      [map |-> MapB(NoMask), affine |-> Identity],
      [map |-> MapB(Mask(T3(0, 1, 0), T3(0, 1, 0))), affine |-> Identity],
      [map |-> MapB(NoMask), affine |-> Flipped] }

-----------------------------------------------------------------------------
(* The collaborators of coord_tools.                                       *)

(* coord_transform(x, y, z, np.linalg.inv(affine)): world to voxel space.  *)
coord_transform(c, affine) ==
    [k \in 1..3 |->
        LET inv_scale  == FDiv[R(1), affine.scale[k]]
            inv_offset == FMul[RNeg[affine.offset[k]], inv_scale]
        IN  FAdd[FMul[c[k], inv_scale], inv_offset]]

(* The world-space bounds of the index box lo..hi: the axis-aligned bound  *)
(* of its transformed corners, (xmin, xmax, ymin, ymax, zmin, zmax).       *)
BoxBounds(lo, hi, affine) ==
    LET w(k, i) == FAdd[FMul[affine.scale[k], R(i)], affine.offset[k]]
        mn(k) == RMin[w(k, lo[k]), w(k, hi[k])]
        mx(k) == RMax[w(k, lo[k]), w(k, hi[k])]
    IN  <<mn(1), mx(1), mn(2), mx(2), mn(3), mx(3)>>

get_bounds(shape, affine) ==
    BoxBounds(T3(0, 0, 0), T3(shape[1] - 1, shape[2] - 1, shape[3] - 1), affine)

get_mask_bounds(mask, affine) == BoxBounds(mask.lo, mask.hi, affine)

-----------------------------------------------------------------------------
VARIABLES _cut_coords, rect, _object_bounds, axlim, last, plotted

vars == <<_cut_coords, rect, _object_bounds, axlim, last, plotted>>

NoArt == [v \in Views |-> <<>>]

(* The record of a call, before the call fills it in. *)
Call(op, args) ==
    [op |-> op, args |-> args, outcome |-> "ok", stage |-> "",
     art |-> NoArt, bbox |-> NoArt, ret |-> <<>>]

(* __init__: the fields after construction. *)
Init ==
    /\ _cut_coords \in CutCoordsSet
    /\ rect \in RectSet
    /\ _object_bounds = [v \in Views |-> <<>>]
    /\ axlim = [v \in Views |-> <<>>]
    /\ last = Call("__init__", <<>>)
    /\ plotted = FALSE

-----------------------------------------------------------------------------
(* _get_object_bounds *)

(* The column k of a non-empty list of entries, and its min and max. *)
Column(entries, k) == { entries[i][k] : i \in 1..Len(entries) }
ColMin(entries, k) ==
    CHOOSE v \in Column(entries, k) : \A u \in Column(entries, k) : RLe[v, u]
ColMax(entries, k) ==
    CHOOSE v \in Column(entries, k) : \A u \in Column(entries, k) : RLe[u, v]

(* _get_object_bounds with xmax taken as a min: max and min mixed up.     *)
get_object_bounds_minmax(ob, ax) ==
    IF Len(ob[ax]) = 0
    THEN [outcome |-> "ValueError", val |-> <<>>]
    ELSE LET e == ob[ax]
             xmax == RMin[ColMax(e, 2), ColMax(e, 1)]
             xmin == RMin[ColMin(e, 1), ColMin(e, 2)]
             ymax == RMax[ColMax(e, 4), ColMax(e, 3)]
             ymin == RMin[ColMin(e, 3), ColMin(e, 4)]
         IN  [outcome |-> "ok", val |-> <<xmin, xmax, ymin, ymax>>]

(* _get_object_bounds giving a zero box for a view without entries.       *)
get_object_bounds_default(ob, ax) ==
    IF Len(ob[ax]) = 0
    THEN [outcome |-> "ok", val |-> <<R(0), R(0), R(0), R(0)>>]
    ELSE LET e == ob[ax]
             xmax == RMax[ColMax(e, 2), ColMax(e, 1)]
             xmin == RMin[ColMin(e, 1), ColMin(e, 2)]
             ymax == RMax[ColMax(e, 4), ColMax(e, 3)]
             ymin == RMin[ColMin(e, 3), ColMin(e, 4)]
         IN  [outcome |-> "ok", val |-> <<xmin, xmax, ymin, ymax>>]

(* np.array(self._object_bounds[ax]).T unpacked into four columns: an     *)
(* empty list gives an array of shape (0,), which does not unpack into    *)
(* four names (ValueError).                                                *)
_get_object_bounds(ob, ax) ==
    IF Len(ob[ax]) = 0
    THEN [outcome |-> "ValueError", val |-> <<>>]
    ELSE LET e == ob[ax]
             xmax == RMax[ColMax(e, 2), ColMax(e, 1)]
             xmin == RMin[ColMin(e, 1), ColMin(e, 2)]
             ymax == RMax[ColMax(e, 4), ColMax(e, 3)]
             ymin == RMin[ColMin(e, 3), ColMin(e, 4)]
         IN  [outcome |-> "ok", val |-> <<xmin, xmax, ymin, ymax>>]

(* A call of _get_object_bounds(ax) on its own. *)
get_object_bounds(ax) ==
    LET r == _get_object_bounds(_object_bounds, ax)
    IN  /\ last' = [Call("_get_object_bounds", ax) EXCEPT
                       !.outcome = r.outcome, !.ret = r.val]
        /\ UNCHANGED <<_cut_coords, rect, _object_bounds, axlim, plotted>>

-----------------------------------------------------------------------------
(* _locator *)

(* The orders in which a dict of the three axes may be iterated. *)
Orders ==
    { o \in [1..3 -> Views] : \A i, j \in 1..3 : i # j => o[i] # o[j] }

(* ShareWidth without the factor (x1 - x0). *)
ShareWidthOfUnitFrame(w, total_width, extent) == FDiv[w, total_width]

(* width/total_width*(x1 - x0): the share of the frame one axes gets. *)
ShareWidth(w, total_width, extent) == FMul[FDiv[w, total_width], extent]

(* The body of _locator up to its return: the width of the objects of    *)
(* each axes, their sum, the share of the frame each axes gets and where  *)
(* each axes starts.  order is the iteration order of width_dict, which   *)
(* the sum of its values follows.                                          *)
Layout(ob, rc, order) ==
    LET x0 == rc[1]
        x1 == rc[3]
        b == [ax \in Views |-> _get_object_bounds(ob, ax)]
        w == [ax \in Views |-> FSub[b[ax].val[2], b[ax].val[1]]]
        total_width == FAdd[FAdd[FAdd[R(0), w[order[1]]], w[order[2]]],
                            w[order[3]]]
        extent == FSub[x1, x0]
        width == [ax \in Views |-> ShareWidth(w[ax], total_width, extent)]
        left_y == FAdd[x0, width["x"]]
        left == [ax \in Views |->
                    CASE ax = "x" -> x0
                      [] ax = "y" -> left_y
                      [] ax = "z" -> FAdd[left_y, width["y"]]]
    IN  IF \E ax \in Views : b[ax].outcome # "ok"
        THEN [outcome |-> "ValueError", left |-> NoArt, width |-> NoArt]
        ELSE IF total_width = R(0)
        THEN [outcome |-> "nan", left |-> NoArt, width |-> NoArt]
        ELSE [outcome |-> "ok", left |-> left, width |-> width]

(* The Bbox _locator returns for axes. *)
Bbox(lay, axes) ==
    IF lay.outcome # "ok" THEN <<>>
    ELSE <<lay.left[axes], R(0),
           FAdd[lay.left[axes], lay.width[axes]], R(1)>>

(* self._locator(axes, renderer) *)
_locator(ob, rc, axes, order) ==
    LET lay == Layout(ob, rc, order)
    IN  [outcome |-> lay.outcome, val |-> Bbox(lay, axes)]

(* A draw of the figure: matplotlib asks the locator of each of the three *)
(* axes for its position.                                                  *)
Draw(order) ==
    /\ \E bb \in { [ax \in Views |-> _locator(_object_bounds, rect, ax, order)] } :
          last' = [Call("_locator", order) EXCEPT
                      !.outcome = bb["x"].outcome,
                      !.bbox = [ax \in Views |-> bb[ax].val]]
    /\ UNCHANGED <<_cut_coords, rect, _object_bounds, axlim, plotted>>

-----------------------------------------------------------------------------
(* draw_cross *)

Line(kind, pos) == [kind |-> kind, pos |-> pos]

(* CrossLines with the horizontal line of 'x' at y instead of z. *)
CrossLinesHorizontalAtY(ax, c) ==
    CASE ax = "x" -> <<Line("axvline", c[1]), Line("axhline", c[2])>>
      [] ax = "y" -> <<Line("axvline", c[2]), Line("axhline", c[3])>>
      [] ax = "z" -> <<Line("axvline", c[1]), Line("axhline", c[2])>>

(* The lines draw_cross adds to the axes ax for the cut (x, y, z). *)
CrossLines(ax, c) ==
    CASE ax = "x" -> <<Line("axvline", c[1]), Line("axhline", c[3])>>
      [] ax = "y" -> <<Line("axvline", c[2]), Line("axhline", c[3])>>
      [] ax = "z" -> <<Line("axvline", c[1]), Line("axhline", c[2])>>

(* DrawCrossCall without the query of the bounds of 'y'. *)
DrawCrossCallNoQuery(ob, stored, arg) ==
    LET c == IF arg = None THEN stored ELSE arg
    IN  [Call("draw_cross", arg) EXCEPT
            !.art = [ax \in Views |-> CrossLines(ax, c)]]

(* What draw_cross(cut_coords) does to the axes: the lines of 'x', then   *)
(* the query of the bounds of 'y', then the lines of 'y' and 'z'.         *)
DrawCrossCall(ob, stored, arg) ==
    LET c == IF arg = None THEN stored ELSE arg
        q == _get_object_bounds(ob, "y")
    IN  IF q.outcome # "ok"
        THEN [Call("draw_cross", arg) EXCEPT
                 !.outcome = q.outcome, !.stage = "y",
                 !.art = [NoArt EXCEPT !["x"] = CrossLines("x", c)]]
        ELSE [Call("draw_cross", arg) EXCEPT
                 !.art = [ax \in Views |-> CrossLines(ax, c)]]

(* draw_cross keeping the cut it was given as the stored one. *)
draw_cross_storing(arg) ==
    /\ last' = DrawCrossCall(_object_bounds, _cut_coords, arg)
    /\ _cut_coords' = IF arg = None THEN _cut_coords ELSE arg
    /\ UNCHANGED <<rect, _object_bounds, axlim, plotted>>

draw_cross(arg) ==
    /\ last' = DrawCrossCall(_object_bounds, _cut_coords, arg)
    /\ UNCHANGED <<_cut_coords, rect, _object_bounds, axlim, plotted>>

-----------------------------------------------------------------------------
(* annotate *)

Text(s, val) == [kind |-> "text", s |-> s, val |-> val]

(* annotate(left_right, positions).  ax_z and ax_x are bound only in the  *)
(* left_right branch; the positions branch reads ax_x first.              *)
AnnotateCall(stored, left_right, positions) ==
    LET lr == IF left_right
              THEN [NoArt EXCEPT !["z"] = <<Text("L", 0), Text("R", 0)>>,
                                 !["x"] = <<Text("L", 0), Text("R", 0)>>]
              ELSE NoArt
        c  == Call("annotate", <<left_right, positions>>)
    IN  IF ~positions THEN [c EXCEPT !.art = lr]
        ELSE IF ~left_right
        THEN [c EXCEPT !.outcome = "UnboundLocalError", !.stage = "x",
                       !.art = lr]
        ELSE [c EXCEPT !.art =
                 [lr EXCEPT
                    !["x"] = Append(@, Text("y=", FormatInt[stored[2]])),
                    !["y"] = Append(@, Text("x=", FormatInt[stored[1]])),
                    !["z"] = Append(@, Text("z=", FormatInt[stored[3]]))]]

annotate(left_right, positions) ==
    /\ last' = AnnotateCall(_cut_coords, left_right, positions)
    /\ UNCHANGED <<_cut_coords, rect, _object_bounds, axlim, plotted>>

-----------------------------------------------------------------------------
(* plot_map *)

(* map[...] with the index i on an axis of length n: numpy accepts        *)
(* -n <= i < n and raises IndexError otherwise.                           *)
ValidIndex(i, n) == -n <= i /\ i < n

AppendBounds(entries, e) == Append(entries, e)

Image(axis, index, extent, map) ==
    [kind |-> "imshow", axis |-> axis, index |-> index, extent |-> extent,
     vmin |-> map.vmin, vmax |-> map.vmax]

(* PlotView appending the entry before it takes the slice. *)
PlotViewAppendFirst(st, ax, axis, index, extent, entry, map) ==
    IF st.outcome # "ok" THEN st
    ELSE LET ob == [st.ob EXCEPT ![ax] = AppendBounds(@, entry)]
         IN  IF ~ValidIndex(index, map.shape[axis])
             THEN [st EXCEPT !.outcome = "IndexError", !.stage = ax,
                             !.ob = ob]
             ELSE [st EXCEPT
                     !.art[ax] = <<Image(axis, index, extent, map)>>,
                     !.ob = ob,
                     !.axlim[ax] = _get_object_bounds(ob, ax).val]

(* One of the three blocks of plot_map: the slice of the map with the     *)
(* array axis `axis` fixed at `index`, shown on the axes ax with `extent`;*)
(* then `entry` is appended to the bounds of ax and the limits of ax are  *)
(* set to the bounds of its objects.  st is the state the block starts in.*)
PlotView(st, ax, axis, index, extent, entry, map) ==
    IF st.outcome # "ok" THEN st
    ELSE IF ~ValidIndex(index, map.shape[axis])
    THEN [st EXCEPT !.outcome = "IndexError", !.stage = ax]
    ELSE LET ob == [st.ob EXCEPT ![ax] = AppendBounds(@, entry)]
         IN  [st EXCEPT
                 !.art[ax] = <<Image(axis, index, extent, map)>>,
                 !.ob = ob,
                 !.axlim[ax] = _get_object_bounds(ob, ax).val]

(* The rounded voxel indices (x_map, y_map, z_map) of the cut. *)
VoxelIndex(cut, affine) ==
    [k \in 1..3 |-> IntRound[coord_transform(cut, affine)[k]]]

(* PlotViewX showing map[x_map, :, :]. *)
PlotViewXFirstIndex(st, idx, b, t, map) ==
    PlotView(st, "x", 1, idx[1], <<b[1], b[2], b[5], b[6]>>,
             <<t[1], t[2], t[5], t[6]>>, map)

(* View 'x' shows map[:, y_map, :]. *)
PlotViewX(st, idx, b, t, map) ==
    PlotView(st, "x", 2, idx[2], <<b[1], b[2], b[5], b[6]>>,
             <<t[1], t[2], t[5], t[6]>>, map)

(* View 'y' shows map[x_map, :, :]. *)
PlotViewY(st, idx, b, t, map) ==
    PlotView(st, "y", 1, idx[1], <<b[3], b[4], b[5], b[6]>>,
             <<t[3], t[4], t[5], t[6]>>, map)

(* View 'z' shows map[:, :, z_map]. *)
PlotViewZ(st, idx, b, t, map) ==
    PlotView(st, "z", 3, idx[3], <<b[1], b[2], b[3], b[4]>>,
             <<t[1], t[2], t[3], t[4]>>, map)

PlotMapCall(ob, al, cut, map, affine) ==
    LET idx == VoxelIndex(cut, affine)
        b   == get_bounds(map.shape, affine)
        t   == IF map.mask.masked THEN get_mask_bounds(map.mask, affine)
               ELSE b
        s0  == [outcome |-> "ok", stage |-> "", ob |-> ob, axlim |-> al,
                art |-> NoArt]
    IN  PlotViewZ(PlotViewY(PlotViewX(s0, idx, b, t, map), idx, b, t, map),
                  idx, b, t, map)

plot_map(map, affine) ==
    /\ Len(_object_bounds["x"]) < MaxPlots
    /\ LET r == PlotMapCall(_object_bounds, axlim, _cut_coords, map, affine)
       IN  /\ _object_bounds' = r.ob
           /\ axlim' = r.axlim
           /\ last' = [Call("plot_map", <<map, affine>>) EXCEPT
                          !.outcome = r.outcome, !.stage = r.stage,
                          !.art = r.art]
           /\ plotted' = (plotted \/ r.outcome = "ok")
    /\ UNCHANGED <<_cut_coords, rect>>

-----------------------------------------------------------------------------
Next ==
    \/ \E ax \in Views : get_object_bounds(ax)
    \/ \E order \in Orders : Draw(order)
    \/ \E arg \in {None} \cup CrossCoordsSet : draw_cross(arg)
    \/ \E left_right, positions \in BOOLEAN : annotate(left_right, positions)
    \/ \E in \in PlotInputs : plot_map(in.map, in.affine)

Spec == Init /\ [][Next]_vars

-----------------------------------------------------------------------------
(* The properties checked.                                                 *)

IsPrefix(s, t) == Len(s) <= Len(t) /\ SubSeq(t, 1, Len(s)) = s

(* The componentwise union of a non-empty list of (xmin, xmax, ymin, ymax) *)
UnionBox(entries) ==
    <<ColMin(entries, 1), ColMax(entries, 2),
      ColMin(entries, 3), ColMax(entries, 4)>>

(* The content width of a view: xmax - xmin of its union bounds, exactly.  *)
ContentWidth(ax) ==
    RSub[UnionBox(_object_bounds[ax])[2], UnionBox(_object_bounds[ax])[1]]

(* The state right after a draw in which every view has content of         *)
(* positive width.                                                         *)
LaidOut ==
    /\ last.op = "_locator"
    /\ \A ax \in Views : _object_bounds[ax] # <<>>
    /\ \A ax \in Views : RLt[R(0), ContentWidth(ax)]

(* The width of the rectangle the locator returned for ax, exactly. *)
RectWidth(ax) == RSub[last.bbox[ax][3], last.bbox[ax][1]]

FrameExtent == RSub[rect[3], rect[1]]

TotalContentWidth ==
    RAdd[RAdd[ContentWidth("x"), ContentWidth("y")], ContentWidth("z")]

TotalRectWidth == RAdd[RAdd[RectWidth("x"), RectWidth("y")], RectWidth("z")]

(* C1 as stated: after a draw with content widths all > 0, the widths of   *)
(* the returned rectangles are exactly proportional to the content widths  *)
(* (width_i * w_j = width_j * w_i) and sum exactly to x1 - x0.             *)
C1_ExactProportions ==
    LaidOut =>
        /\ last.outcome = "ok"
        /\ \A i, j \in Views :
              RMul[RectWidth(i), ContentWidth(j)]
                  = RMul[RectWidth(j), ContentWidth(i)]
        /\ TotalRectWidth = FrameExtent

(* Ten units of roundoff at the scale |x0| + |x1| of the frame. *)
Roundoff == RMul[Q(10, MantHi), RAdd[RAbs[rect[1]], RAbs[rect[3]]]]

Near(a, b) == RLe[RAbs[RSub[a, b]], Roundoff]

(* C1 amended: after a draw with content widths all > 0, the width of each *)
(* returned rectangle is (x1 - x0) * w_i / (w_x + w_y + w_z) and the three *)
(* widths sum to x1 - x0, both up to floating-point rounding (ten units of *)
(* roundoff at the scale of the frame).                                    *)
C1_ProportionsUpToRounding ==
    LaidOut =>
        /\ last.outcome = "ok"
        /\ \A i \in Views :
              Near(RectWidth(i),
                   RDiv[RMul[FrameExtent, ContentWidth(i)], TotalContentWidth])
        /\ Near(TotalRectWidth, FrameExtent)

(* A draw over views of different positive content widths, in a frame that *)
(* is not the whole figure.                                                *)
C1_Witness ==
    /\ LaidOut
    /\ last.outcome = "ok"
    /\ ContentWidth("x") # ContentWidth("y")
    /\ FrameExtent # R(1)

(* C2: an operation leaves the entries a view already has in place, in     *)
(* order, and whenever a view has entries _get_object_bounds gives their   *)
(* componentwise union (min of xmin, max of xmax, min of ymin, max of      *)
(* ymax): both as the display limits plot_map sets from it and as the      *)
(* result of a call of its own.                                            *)
C2_UnionOfAppended ==
    [][ \A ax \in Views :
          /\ IsPrefix(_object_bounds[ax], _object_bounds'[ax])
          /\ _object_bounds'[ax] # <<>> =>
                /\ axlim'[ax] = UnionBox(_object_bounds'[ax])
                /\ (last'.op = "_get_object_bounds" /\ last'.args = ax) =>
                      /\ last'.outcome = "ok"
                      /\ last'.ret = UnionBox(_object_bounds'[ax]) ]_vars

(* The bounds of a view with two entries, neither of which is the union.   *)
C2_Witness ==
    /\ last.op = "_get_object_bounds"
    /\ Len(_object_bounds[last.args]) = 2
    /\ last.ret # _object_bounds[last.args][1]
    /\ last.ret # _object_bounds[last.args][2]
    /\ last.ret = UnionBox(_object_bounds[last.args])

(* The cut draw_cross used: its argument, or the stored one. *)
CrossCut == IF last.args = None THEN _cut_coords ELSE last.args

(* C3: draw_cross with the cut (x, y, z), given or stored, draws on 'x' a  *)
(* vertical line at x and a horizontal line at z, and when it returns      *)
(* normally on 'y' a vertical line at y and a horizontal line at z and on  *)
(* 'z' a vertical line at x and a horizontal line at y.                    *)
C3_CrossLines ==
    last.op = "draw_cross" =>
        /\ last.art["x"] = << [kind |-> "axvline", pos |-> CrossCut[1]],
                              [kind |-> "axhline", pos |-> CrossCut[3]] >>
        /\ last.outcome = "ok" =>
              /\ last.art["y"] = << [kind |-> "axvline", pos |-> CrossCut[2]],
                                    [kind |-> "axhline", pos |-> CrossCut[3]] >>
              /\ last.art["z"] = << [kind |-> "axvline", pos |-> CrossCut[1]],
                                    [kind |-> "axhline", pos |-> CrossCut[2]] >>

(* A draw_cross that returned normally, for a cut with x, y, z distinct.   *)
C3_Witness ==
    /\ last.op = "draw_cross"
    /\ last.outcome = "ok"
    /\ CrossCut[1] # CrossCut[2]
    /\ CrossCut[2] # CrossCut[3]
    /\ CrossCut[1] # CrossCut[3]

(* The rounded voxel indices (i, j, k) of the cut in the last plot_map. *)
LastIndex == VoxelIndex(_cut_coords, last.args[2])

Shows(ax, axis, index) ==
    /\ Len(last.art[ax]) = 1
    /\ last.art[ax][1].kind = "imshow"
    /\ last.art[ax][1].axis = axis
    /\ last.art[ax][1].index = index

(* C4 as stated: plot_map shows on 'x' the slice with the first array      *)
(* index fixed at i, on 'y' the slice with the second index fixed at j, on *)
(* 'z' the slice with the third index fixed at k.                          *)
C4_FirstIndexOnX ==
    (last.op = "plot_map" /\ last.outcome = "ok") =>
        /\ Shows("x", 1, LastIndex[1])
        /\ Shows("y", 2, LastIndex[2])
        /\ Shows("z", 3, LastIndex[3])

(* C4 amended: plot_map shows on 'x' the slice with the second array index *)
(* fixed at j, on 'y' the slice with the first index fixed at i, on 'z'    *)
(* the slice with the third index fixed at k.                              *)
C4_SecondIndexOnX ==
    (last.op = "plot_map" /\ last.outcome = "ok") =>
        /\ Shows("x", 2, LastIndex[2])
        /\ Shows("y", 1, LastIndex[1])
        /\ Shows("z", 3, LastIndex[3])

(* A plot_map that returned normally for a cut whose indices differ. *)
C4_Witness ==
    /\ last.op = "plot_map"
    /\ last.outcome = "ok"
    /\ LastIndex[1] # LastIndex[2]
    /\ LastIndex[2] # LastIndex[3]
    /\ LastIndex[1] # LastIndex[3]

(* C5: _get_object_bounds on a view with no entry ends in an error and     *)
(* returns no box.                                                         *)
C5_EmptyIsError ==
    (last.op = "_get_object_bounds" /\ _object_bounds[last.args] = <<>>) =>
        /\ last.outcome # "ok"
        /\ last.ret = <<>>

(* _get_object_bounds was called on a view with no entry. *)
C5_Witness ==
    /\ last.op = "_get_object_bounds"
    /\ _object_bounds[last.args] = <<>>
    /\ last.outcome = "ValueError"

FailedPlot == last.op = "plot_map" /\ last.outcome # "ok"

(* C6 as stated: a plot_map call that fails leaves the content-bounds      *)
(* records of all three views as they were before the call.                *)
C6_FailureLeavesBounds ==
    [][ FailedPlot' => _object_bounds' = _object_bounds ]_vars

(* The views plot_map handles before the view ax. *)
ViewsBefore(ax) ==
    CASE ax = "x" -> {}
      [] ax = "y" -> {"x"}
      [] ax = "z" -> {"x", "y"}

(* C6 amended: a plot_map call that fails at the slice of one view leaves  *)
(* every earlier entry in place, has appended exactly one entry to each    *)
(* view handled before the failing one ('x', then 'y', then 'z') and none  *)
(* to the failing view and the views after it.                             *)
C6_FailureKeepsEarlierViews ==
    [][ FailedPlot' =>
          \A ax \in Views :
             /\ IsPrefix(_object_bounds[ax], _object_bounds'[ax])
             /\ Len(_object_bounds'[ax]) =
                   Len(_object_bounds[ax])
                     + (IF ax \in ViewsBefore(last'.stage) THEN 1 ELSE 0) ]_vars

(* A plot_map that failed at the slice of 'y' after an earlier plot_map    *)
(* had registered content on all three views.                              *)
C6_Witness ==
    /\ FailedPlot
    /\ last.stage = "y"
    /\ Len(_object_bounds["y"]) = 1
    /\ Len(_object_bounds["x"]) = 2

(* C7: after a draw over content of positive total width the rectangles    *)
(* are contiguous bands in the order 'x', 'y', 'z' from x0 to x1 (the end  *)
(* at x1 read up to rounding, as in C1), each (left, 0, left + width, 1),  *)
(* lying within the frame (x0, y0, x1, y1).                                *)
C7_BandsWithinFrame ==
    (last.op = "_locator" /\ last.outcome = "ok") =>
        /\ last.bbox["x"][1] = rect[1]
        /\ last.bbox["y"][1] = last.bbox["x"][3]
        /\ last.bbox["z"][1] = last.bbox["y"][3]
        /\ Near(last.bbox["z"][3], rect[3])
        /\ \A ax \in Views :
              /\ last.bbox[ax][2] = R(0)
              /\ last.bbox[ax][4] = R(1)
              /\ RLe[rect[1], last.bbox[ax][1]]
              /\ RLe[last.bbox[ax][3], RAdd[rect[3], Roundoff]]
              /\ RLe[rect[2], last.bbox[ax][2]]
              /\ RLe[last.bbox[ax][4], rect[4]]

HasText(ax, s, val) ==
    \E i \in 1..Len(last.art[ax]) :
        last.art[ax][i] = [kind |-> "text", s |-> s, val |-> val]

(* C8: annotate with positions true returns normally and draws the cut     *)
(* position as a text on each of the three views, whatever left_right is.  *)
C8_PositionsAlwaysDrawn ==
    (last.op = "annotate" /\ last.args[2]) =>
        /\ last.outcome = "ok"
        /\ HasText("x", "y=", FormatInt[_cut_coords[2]])
        /\ HasText("y", "x=", FormatInt[_cut_coords[1]])
        /\ HasText("z", "z=", FormatInt[_cut_coords[3]])

(* C9: only plot_map changes the content-bounds records, and no operation  *)
(* changes the stored cut coordinates or the stored frame rectangle.       *)
C9_OnlyPlotMapWrites ==
    [][ /\ _object_bounds' # _object_bounds => last'.op = "plot_map"
        /\ _cut_coords' = _cut_coords
        /\ rect' = rect ]_vars

(* draw_cross was called with a cut other than the stored one, on a slicer *)
(* with content.                                                           *)
C9_Witness ==
    /\ last.op = "draw_cross"
    /\ last.args # None
    /\ last.args # _cut_coords
    /\ _object_bounds["y"] # <<>>

(* C10 as stated: draw_cross returns normally only after at least one      *)
(* plot_map call has returned normally.                                    *)
C10_OnlyAfterSuccessfulPlot ==
    (last.op = "draw_cross" /\ last.outcome = "ok") => plotted

(* C10 amended: draw_cross returns normally exactly when the 'y' view has  *)
(* a content-bounds entry, which is so after any plot_map that returned    *)
(* normally.  Otherwise it draws the two lines on 'x', fails with the      *)
(* error of the empty 'y' bounds and draws nothing on 'y' and 'z'; when it *)
(* returns normally it has drawn two lines on each view.                   *)
C10_NeedsBoundsOnY ==
    last.op = "draw_cross" =>
        /\ last.outcome = "ok" <=> _object_bounds["y"] # <<>>
        /\ plotted => last.outcome = "ok"
        /\ last.outcome # "ok" =>
              /\ last.outcome = "ValueError"
              /\ Len(last.art["x"]) = 2
              /\ last.art["y"] = <<>>
              /\ last.art["z"] = <<>>
        /\ last.outcome = "ok" => \A ax \in Views : Len(last.art[ax]) = 2

(* draw_cross returned normally although no plot_map call had. *)
C10_Witness ==
    /\ last.op = "draw_cross"
    /\ last.outcome = "ok"
    /\ ~plotted

====
